---- MODULE Spec2Model ----
(***************************************************************************)
(* OperatorConfig.Mirror (pkg/operator-config.go): the mirroring pipeline  *)
(* purge, recreate, clone, seed copy, dependency closure, import rewrite,  *)
(* go.mod generation, release of the clone directory.                      *)
(*                                                                         *)
(* Packages and internal import paths are the numbers of Pkgs (package p   *)
(* has import path upstreamModule/p, and numeric order is the lexical      *)
(* order of the paths).  The upstream repository at the pinned tag is the  *)
(* record repo, the OperatorConfig is the record o; both are fixed for a   *)
(* behaviour.                                                              *)
(***************************************************************************)
EXTENDS Integers, Sequences, FiniteSets, TLC

\* ---------------------------------------------------------------- bounds
MaxRuns == 2        \* consecutive calls of Mirror on one destination
MaxAPIs == 2        \* length of o.APIs
MaxDup == 1         \* repeated entries in one result of collectInternalImports
MaxReqs == 3        \* require lines of the upstream go.mod
MaxOverrides == 2   \* length of o.OverwriteDeps
MaxRefLen == 5      \* characters of an import reference given to the rewrite

Pkgs == 1..4
Core == 1..3
ModPaths == 1..2
Versions == 1..2

\* ---------------------------------------------------------------- helpers
Range(s) == {s[i] : i \in 1..Len(s)}

Min(S) == CHOOSE x \in S : \A y \in S : x <= y

RECURSIVE SortedSeq(_)
SortedSeq(S) == IF S = {} THEN <<>> ELSE <<Min(S)>> \o SortedSeq(S \ {Min(S)})

SeqsUpTo(S, n) == UNION {[1..k -> S] : k \in 0..n}

VARIABLES
    o,            \* the OperatorConfig: APIs, OverwriteDeps
    repo,         \* the clone of the upstream repository at the tag: pkgs, refs
    upstream,     \* the upstream go.mod as createGoMod read it
    pc,           \* position inside Mirror
    run,          \* number of the current call of Mirror
    ret,          \* what Mirror returned: "pending" while it runs
    destExists,   \* destDir exists
    files,        \* packages under destDir: p -> [by: run that wrote it, rw: rewrites]
    gomod,        \* destDir/go.mod, or NoFile
    sourceDir,    \* the temp clone directory of this run: "none", "exists", "removed"
    apiIdx,       \* index of the range loop over o.APIs
    seenImports,  \* local map of rewriteInternalImportsAndCopy
    toCopy,       \* local slice of the closure loop
    steps,        \* log of the steps this run executed
    copies,       \* per package: copies into destDir during this run
    handed,       \* per import path: times it was passed to copyInternalPackages
    rewriteCalls, \* calls of rewriteImports during this run
    depIdx,       \* index of the range loop over o.OverwriteDeps
    scanDup,      \* a result of collectInternalImports repeated a path in this run
    hadFiles,     \* destDir held files when this run began
    probe,        \* one import reference and what the rewrite made of it
    inOrder,      \* every toCopy of this run so far was in ascending order
    tidyLog,      \* what tidy was given and what it left, over all runs
    prev          \* how the previous run ended

vars == <<o, repo, upstream, pc, run, ret, destExists, files, gomod, sourceDir, apiIdx,
          seenImports, toCopy, steps, copies, handed, rewriteCalls, depIdx, scanDup, hadFiles, probe,
          inOrder, tidyLog, prev>>

NoFile == [by |-> 0, module |-> <<>>, go |-> "", require |-> <<>>, replace |-> <<>>,
           exclude |-> <<>>, tidied |-> FALSE]

\* ---------------------------------------------------------------- inputs
\* A glob pattern: malformed (filepath.ErrBadPattern), or the directories it
\* denotes; it matches those of them that exist in the clone.
BadPattern == [bad |-> TRUE, dirs |-> {}]
Pattern(S) == [bad |-> FALSE, dirs |-> S]
Patterns == {BadPattern, Pattern({1}), Pattern({1, 2})}

\* Reference graphs: every graph over Core without self reference, and the
\* diamond 1 -> 2, 1 -> 3, 2 -> 4, 3 -> 4.
Diamond == [p \in Pkgs |-> CASE p = 1 -> {2, 3} [] p = 2 -> {4} [] p = 3 -> {4} [] OTHER -> {}]
Graphs == {[p \in Pkgs |-> IF p \in Core THEN g[p] ELSE {}] :
              g \in {h \in [Core -> SUBSET Core] : \A p \in Core : p \notin h[p]}}
          \cup {Diamond}

\* The upstream go.mod: whether modfile.Parse accepts it, its go directive
\* ("" when it has none), its require lines in file order, its replace and
\* exclude lines.  A replace line puts module new at version vers in place
\* of module old.
GoMod(okv, gov, req, rep, exc) ==
    [ok |-> okv, go |-> gov, require |-> req, replace |-> rep, exclude |-> exc]
Replace(old, new, vers) == [old |-> old, new |-> new, vers |-> vers]
GoVersions == {"", "1.21"}
Requirement == {<<1, 1>>, <<1, 2>>, <<2, 1>>}
Unparsable == GoMod(FALSE, "", <<>>, <<>>, <<>>)

PipelineGoMods == {GoMod(TRUE, "1.21", <<<<1, 1>>, <<2, 1>>>>, <<>>, <<>>), Unparsable}
NotRead == GoMod(FALSE, "unread", <<>>, <<>>, <<>>)

Deps == {<<1, 1>>, <<1, 2>>, <<2, 1>>}

\* The upstream go.mod files createGoMod is tried on: without replace and
\* exclude lines, or with one of each.
AllGoMods ==
    {GoMod(TRUE, g, r, x[1], x[2]) :
        g \in GoVersions, r \in SeqsUpTo(Requirement, MaxReqs),
        x \in {<<<<>>, <<>>>>, <<<<Replace(2, 1, 2)>>, <<<<1, 1>>>>>>}}
    \cup {Unparsable}
PipelineDeps == {<<>>, <<<<1, 2>>>>}

\* The clone: the packages it has, what each refers to (a package that is
\* not there has no files and refers to nothing; package 4 is referred to
\* in the diamond only).
Repos ==
    {r \in [pkgs : {Pkgs} \cup {Pkgs \ {x} : x \in Pkgs}, refs : Graphs] :
        /\ \A p \in Pkgs \ r.pkgs : r.refs[p] = {}
        /\ 4 \notin r.pkgs => r.refs = Diamond}

\* Strings are sequences of pieces; a path separator is the piece "/".  The
\* module root is r, the mirror root directory ./m, the slug s and the
\* current version v.
Slug == <<"s">>
CurrentVersion == <<"v">>
MirrorRootPath == <<".", "/", "m">>
ModuleRoot == <<"r">>

\* The module path of the upstream go.mod, as getUpstreamModulePath gives it.
UpstreamModule == <<"x", "/", "y">>

\* The import references the rewrite is tried on.
Chars == {"x", "y", "z", "/"}
Refs == SeqsUpTo(Chars, MaxRefLen)
NoProbe == [ref |-> <<>>, out |-> <<"-">>]

\* ------------------------------------------------------- pure operators
Entry(name, i, e) == [s |-> name, i |-> i, err |-> e]

\* A GetPaths that reports a pattern without matches as an error.
GetPathsStrict(d, root) ==
    IF d.bad \/ d.dirs \cap root.pkgs = {}
    THEN [paths |-> <<>>, err |-> "InvalidPattern"]
    ELSE [paths |-> SortedSeq(d.dirs \cap root.pkgs), err |-> "nil"]

\* DirectoryPath.GetPaths: filepath.Glob fails on a malformed pattern only;
\* a pattern that matches nothing gives an empty list and no error.
GetPaths(d, root) ==
    IF d.bad THEN [paths |-> <<>>, err |-> "InvalidPattern"]
    ELSE [paths |-> SortedSeq(d.dirs \cap root.pkgs), err |-> "nil"]

\* A purge that leaves the files of the tree in place.
RemoveAllKeepsFiles(fs) == fs

\* os.RemoveAll(destDir) that succeeds: nothing is left of the tree.
RemoveAll(fs) == <<>>

\* copyGoFiles(sourcePath, destPath): the package's files, as they are in
\* the clone, written under destDir; an existing copy is overwritten.
CopyGoFiles(fs, p, r) ==
    [q \in DOMAIN fs \cup {p} |->
        IF q = p THEN [by |-> r, rw |-> 0, mod |-> UpstreamModule] ELSE fs[q]]

RECURSIVE CopyAll(_, _, _)
CopyAll(fs, paths, r) ==
    IF paths = <<>> THEN fs
    ELSE CopyAll(CopyGoFiles(fs, Head(paths), r), Tail(paths), r)

\* OperatorConfig.copy: copies the paths in order; failAt = 0 is the run of
\* the loop in which no copyGoFiles fails, failAt = k the one in which the
\* k-th fails (the k-1 paths before it are copied).
Copy(sourcePaths, fs, r, failAt) ==
    IF failAt \in 1..Len(sourcePaths)
    THEN [files |-> CopyAll(fs, SubSeq(sourcePaths, 1, failAt - 1), r),
          done |-> SubSeq(sourcePaths, 1, failAt - 1), err |-> "CopyFailure"]
    ELSE [files |-> CopyAll(fs, sourcePaths, r), done |-> sourcePaths, err |-> "nil"]

\* collectInternalImports(destDir, upstreamModule): the import paths under
\* the upstream module that the files now in destDir refer to.
InternalImports(fs, root) ==
    UNION {root.refs[p] : p \in {q \in DOMAIN fs : fs[q].rw = 0}}

\* The lists collectInternalImports may return for that set: any order, and
\* a path may be reported more than once (by several files).
ScanResults(S) ==
    {l \in SeqsUpTo(S, Cardinality(S) + MaxDup) : Range(l) = S}

\* The loop without line 155: nothing is recorded in seenImports.
RECURSIVE NewImportsUnmarked(_, _, _)
NewImportsUnmarked(internalImports, seen, acc) ==
    IF internalImports = <<>> THEN [seen |-> seen, toCopy |-> acc]
    ELSE LET imp == Head(internalImports) IN
         IF imp \in seen
         THEN NewImportsUnmarked(Tail(internalImports), seen, acc)
         ELSE NewImportsUnmarked(Tail(internalImports), seen, Append(acc, imp))

\* The loop with seenImports filled only after it: a path the scan reports
\* twice is appended twice.
NewImportsMarkedLate(internalImports, seen, acc) ==
    [seen |-> seen \cup Range(internalImports),
     toCopy |-> acc \o SelectSeq(internalImports, LAMBDA imp : imp \notin seen)]

\* The loop that records every reported path in seenImports and appends
\* the first new one only.
NewImportsFirstOnly(internalImports, seen, acc) ==
    LET new == SelectSeq(internalImports, LAMBDA imp : imp \notin seen)
    IN [seen |-> seen \cup Range(internalImports),
        toCopy |-> acc \o (IF new = <<>> THEN <<>> ELSE <<Head(new)>>)]

\* The loop that records every new path in seenImports and appends it only
\* when it is greater than the last one appended.
RECURSIVE NewImportsAscendingOnly(_, _, _)
NewImportsAscendingOnly(internalImports, seen, acc) ==
    IF internalImports = <<>> THEN [seen |-> seen, toCopy |-> acc]
    ELSE LET imp == Head(internalImports) IN
         IF imp \in seen
         THEN NewImportsAscendingOnly(Tail(internalImports), seen, acc)
         ELSE NewImportsAscendingOnly(
                  Tail(internalImports), seen \cup {imp},
                  IF acc = <<>> \/ acc[Len(acc)] < imp THEN Append(acc, imp) ELSE acc)

\* The range loop over internalImports: an import already in seenImports is
\* skipped, any other is added to seenImports and appended to toCopy.
RECURSIVE NewImports(_, _, _)
NewImports(internalImports, seen, acc) ==
    IF internalImports = <<>> THEN [seen |-> seen, toCopy |-> acc]
    ELSE LET imp == Head(internalImports) IN
         IF imp \in seen
         THEN NewImports(Tail(internalImports), seen, acc)
         ELSE NewImports(Tail(internalImports), seen \cup {imp}, Append(acc, imp))

\* A closure loop that never goes round again.
ClosureReachedAtOnce(list) == TRUE

\* Lines 159-162: the closure loop ends when the scan gave nothing new.
ClosureReached(list) == Len(list) = 0

\* A closure copy that passes over an import path whose package is absent.
RECURSIVE CopyInternalPackagesSkipAbsent(_, _, _, _, _, _)
CopyInternalPackagesSkipAbsent(list, fs, root, r, failAt, done) ==
    IF list = <<>> THEN [files |-> fs, done |-> done, err |-> "nil"]
    ELSE IF Head(list) \notin root.pkgs
         THEN CopyInternalPackagesSkipAbsent(Tail(list), fs, root, r, failAt, done)
    ELSE IF failAt = Len(done) + 1
         THEN [files |-> fs, done |-> done, err |-> "CopyFailure"]
    ELSE CopyInternalPackagesSkipAbsent(Tail(list), CopyGoFiles(fs, Head(list), r), root, r,
                                        failAt, Append(done, Head(list)))

\* copyInternalPackages(toCopy, upstreamModule, sourceDir, destDir): for each
\* import path in order, the package directory under sourceDir is located
\* (absent: MissingInternalPackage) and copied (failAt as in Copy).
RECURSIVE CopyInternalPackages(_, _, _, _, _, _)
CopyInternalPackages(list, fs, root, r, failAt, done) ==
    IF list = <<>> THEN [files |-> fs, done |-> done, err |-> "nil"]
    ELSE IF Head(list) \notin root.pkgs
         THEN [files |-> fs, done |-> done, err |-> "MissingInternalPackage"]
    ELSE IF failAt = Len(done) + 1
         THEN [files |-> fs, done |-> done, err |-> "CopyFailure"]
    ELSE CopyInternalPackages(Tail(list), CopyGoFiles(fs, Head(list), r), root, r,
                              failAt, Append(done, Head(list)))

HasPrefix(str, prefix) ==
    Len(str) >= Len(prefix) /\ SubSeq(str, 1, Len(prefix)) = prefix

\* strings.TrimPrefix.
TrimPrefix(str, prefix) ==
    IF HasPrefix(str, prefix) THEN SubSeq(str, Len(prefix) + 1, Len(str)) ELSE str

\* A rewrite that takes any reference with the old path as a string prefix.
RewriteRefByStringPrefix(ref, old, new) ==
    IF HasPrefix(ref, old) THEN new \o SubSeq(ref, Len(old) + 1, Len(ref)) ELSE ref

\* rewriteImports on one reference: a reference that is the old module path
\* or continues it after a "/" gets the new module path in its place, the
\* rest kept; any other reference is left as it is.
RewriteRef(ref, old, new) ==
    IF ref = old \/ HasPrefix(ref, old \o <<"/">>)
    THEN new \o SubSeq(ref, Len(old) + 1, Len(ref))
    ELSE ref

\* rewriteImports(destDir, upstreamModule, mirrorModule): one pass over the
\* files under destDir in path order; n is the number of files it gets
\* through (all of them when it succeeds).  mod is the module path that
\* the file's internal references carry.
RewriteImports(fs, n, old, new) ==
    LET order == SortedSeq(DOMAIN fs)
        reached == {order[i] : i \in 1..n}
    IN [p \in DOMAIN fs |->
           IF p \in reached
           THEN [fs[p] EXCEPT !.rw = @ + 1, !.mod = RewriteRef(@, old, new)]
           ELSE fs[p]]

\* Mirror, lines 75-77.
ModulePath(moduleRoot, mirrorRootPath) ==
    moduleRoot \o <<"/">> \o TrimPrefix(TrimPrefix(mirrorRootPath, <<".">>), <<"/">>)

\* rewriteInternalImportsAndCopy, line 140.
MirrorModule(moduleRoot, slug, version) ==
    moduleRoot \o <<"/">> \o slug \o <<"/">> \o version

\* A go.mod module path with version and slug the other way round.
MirrorModulePathSwapped(moduleRoot, slug, version) ==
    moduleRoot \o <<"/">> \o version \o <<"/">> \o slug

\* createGoMod, line 178.
MirrorModulePath(moduleRoot, slug, version) ==
    moduleRoot \o <<"/">> \o slug \o <<"/">> \o version

\* modfile.File.AddRequire: sets the first require line for the path to the
\* version and removes any other line for the path; adds a line at the end
\* when there is none.
AddRequire(req, path, vers) ==
    IF \E i \in 1..Len(req) : req[i][1] = path
    THEN LET first == Min({i \in 1..Len(req) : req[i][1] = path})
             kept == SelectSeq([i \in 1..Len(req) |-> <<i, req[i]>>],
                               LAMBDA e : e[2][1] # path \/ e[1] = first)
         IN [k \in 1..Len(kept) |->
                IF kept[k][1] = first THEN <<path, vers>> ELSE kept[k][2]]
    ELSE Append(req, <<path, vers>>)

\* createGoMod, lines 207-211: the range loop over upstream.Require.
RECURSIVE CopyRequires(_, _)
CopyRequires(upstreamRequire, acc) ==
    IF upstreamRequire = <<>> THEN acc
    ELSE CopyRequires(Tail(upstreamRequire),
                      AddRequire(acc, Head(upstreamRequire)[1], Head(upstreamRequire)[2]))

\* A go directive that is always the default.
GoVersionDefault(up) == "1.22"

\* createGoMod, lines 197-201.
GoVersion(up) == IF up.go # "" THEN up.go ELSE "1.22"

\* A new go.mod that takes the replace and exclude lines of upstream along.
NewModWithUpstreamLines(up, mirrorModulePath, r) ==
    [by |-> r, module |-> mirrorModulePath, go |-> GoVersion(up),
     require |-> CopyRequires(up.require, <<>>), replace |-> up.replace,
     exclude |-> up.exclude, tidied |-> FALSE]

\* createGoMod, lines 191-222: the go.mod written to destDir.
NewMod(up, mirrorModulePath, r) ==
    [by |-> r, module |-> mirrorModulePath, go |-> GoVersion(up),
     require |-> CopyRequires(up.require, <<>>), replace |-> <<>>,
     exclude |-> <<>>, tidied |-> FALSE]

\* createGoMod, line 228: the argument -replace=name=name@version.
ReplaceArg(dep) == Replace(dep[1], dep[1], dep[2])

\* go mod edit -replace=old=new@vers: the replace line for old is set to
\* new@vers, or added at the end when there is none.
EditReplace(rep, arg) ==
    IF \E i \in 1..Len(rep) : rep[i].old = arg.old
    THEN [i \in 1..Len(rep) |-> IF rep[i].old = arg.old THEN arg ELSE rep[i]]
    ELSE Append(rep, arg)

\* go mod tidy: the requirement lists it may leave, any subset of the lines
\* in sorted order.
LinesOf(req) == {req[i] : i \in 1..Len(req)}
Key(line) == line[1] * 10 + line[2]
RECURSIVE SortedLines(_)
SortedLines(S) ==
    IF S = {} THEN <<>>
    ELSE LET m == CHOOSE x \in S : \A y \in S : Key(x) <= Key(y)
         IN <<m>> \o SortedLines(S \ {m})
TidyResults(req) == {SortedLines(S) : S \in SUBSET LinesOf(req)}

\* What is on disk of a tree and of a go.mod: the records without the marks
\* of which run wrote them.
Content(fs) == [p \in DOMAIN fs |-> [rw |-> fs[p].rw, mod |-> fs[p].mod]]
Manifest(gm) ==
    [module |-> gm.module, go |-> gm.go, require |-> gm.require,
     replace |-> gm.replace, exclude |-> gm.exclude]

\* go mod tidy reads the go.mod and the files of destDir; given the same of
\* both it leaves the same go.mod.
TidyInput(fs, gm) == [tree |-> Content(fs), manifest |-> Manifest(gm)]

Ascending(list) == \A i, j \in 1..Len(list) : i < j => list[i] < list[j]

NoPrev == [ok |-> FALSE, tree |-> <<>>, manifest |-> Manifest(NoFile),
           upstream |-> NotRead, inOrder |-> TRUE]

\* ---------------------------------------------------------------- state
Zero == [p \in Pkgs |-> 0]

EntryState(r) ==
    /\ pc = "purge"
    /\ run = r
    /\ ret = "pending"
    /\ sourceDir = "none"
    /\ apiIdx = 1
    /\ seenImports = {}
    /\ toCopy = <<>>
    /\ steps = <<>>
    /\ copies = Zero
    /\ handed = Zero
    /\ rewriteCalls = 0
    /\ depIdx = 1
    /\ scanDup = FALSE

Init ==
    /\ o \in [APIs : SeqsUpTo(Patterns, MaxAPIs), OverwriteDeps : PipelineDeps]
    /\ repo \in Repos
    /\ upstream = NotRead
    /\ destExists = FALSE
    /\ files = <<>>
    /\ gomod = NoFile
    /\ hadFiles = FALSE
    /\ probe = NoProbe
    /\ inOrder = TRUE /\ tidyLog = {} /\ prev = NoPrev
    /\ EntryState(1)

Log(name, i, e) == steps' = Append(steps, Entry(name, i, e))

\* An error that is recorded but does not end the run.
ReturnAndGoOn(err) == pc' = pc /\ ret' = err

\* Mirror returns err (lines 51, 55, 60, 66, 71, 81, 86).
Return(err) == pc' = "done" /\ ret' = err

\* Lines 50-52: os.RemoveAll(destDir).  When it fails, part of the tree may
\* be gone already.
RemoveDest ==
    /\ pc = "purge"
    /\ \/ /\ destExists' = FALSE /\ files' = RemoveAll(files) /\ gomod' = NoFile
          /\ pc' = "mkdir" /\ ret' = ret
          /\ Log("purge", 0, "nil")
       \/ /\ destExists
          /\ \E keep \in SUBSET DOMAIN files :
                files' = [p \in keep |-> files[p]]
          /\ gomod' \in {gomod, NoFile}
          /\ destExists' = destExists
          /\ Return("RemoveFailure")
          /\ Log("purge", 0, "RemoveFailure")
    /\ UNCHANGED <<o, repo, upstream, run, sourceDir, apiIdx, seenImports, toCopy,
                   copies, handed, rewriteCalls, depIdx, scanDup, hadFiles, probe,
                   inOrder, tidyLog, prev>>

\* Lines 54-56: os.MkdirAll(destDir).
MkdirDest ==
    /\ pc = "mkdir"
    /\ \/ destExists' = TRUE /\ pc' = "clone" /\ ret' = ret /\ Log("mkdir", 0, "nil")
       \/ destExists' = destExists /\ Return("MkdirFailure")
          /\ Log("mkdir", 0, "MkdirFailure")
    /\ UNCHANGED <<o, repo, upstream, run, files, gomod, sourceDir, apiIdx,
                   seenImports, toCopy, copies, handed, rewriteCalls, depIdx, scanDup, hadFiles, probe,
                   inOrder, tidyLog, prev>>

\* Lines 58-61 and clone (97-114): MkdirTemp, git clone; a failed clone
\* removes the temp directory before it returns.
Clone ==
    /\ pc = "clone"
    /\ \/ sourceDir' = "exists" /\ pc' = "seed" /\ ret' = ret /\ Log("clone", 0, "nil")
       \/ sourceDir' = "none" /\ Return("FetchFailure")
          /\ Log("clone", 0, "FetchFailure")
       \/ sourceDir' = "removed" /\ Return("FetchFailure")
          /\ Log("clone", 0, "FetchFailure")
    /\ UNCHANGED <<o, repo, upstream, run, destExists, files, gomod, apiIdx,
                   seenImports, toCopy, copies, handed, rewriteCalls, depIdx, scanDup, hadFiles, probe,
                   inOrder, tidyLog, prev>>

Count(list, p) == Cardinality({i \in 1..Len(list) : list[i] = p})
Bump(cnt, list) == [p \in Pkgs |-> cnt[p] + Count(list, p)]

\* Lines 63-73, one iteration of the range loop over o.APIs.
SeedCopy ==
    /\ pc = "seed"
    /\ apiIdx <= Len(o.APIs)
    /\ LET got == GetPaths(o.APIs[apiIdx], repo) IN
       IF got.err # "nil"
       THEN /\ Return(got.err)
            /\ Log("seed", apiIdx, got.err)
            /\ UNCHANGED <<files, copies, apiIdx>>
       ELSE \E failAt \in 0..Len(got.paths) :
              LET c == Copy(got.paths, files, run, failAt) IN
              /\ files' = c.files
              /\ copies' = Bump(copies, c.done)
              /\ Log("seed", apiIdx, c.err)
              /\ IF c.err # "nil"
                 THEN Return(c.err) /\ apiIdx' = apiIdx
                 ELSE pc' = pc /\ ret' = ret /\ apiIdx' = apiIdx + 1
    /\ UNCHANGED <<o, repo, upstream, run, destExists, gomod, sourceDir,
                   seenImports, toCopy, handed, rewriteCalls, depIdx, scanDup, hadFiles, probe,
                   inOrder, tidyLog, prev>>

\* Lines 75-79 and 135-142: after the last pattern, getUpstreamModulePath,
\* and the empty seenImports.
GetUpstreamModulePath ==
    /\ pc = "seed"
    /\ apiIdx > Len(o.APIs)
    /\ \/ pc' = "scan" /\ ret' = ret /\ Log("modpath", 0, "nil")
       \/ Return("ModulePathFailure") /\ Log("modpath", 0, "ModulePathFailure")
    /\ seenImports' = {}
    /\ UNCHANGED <<o, repo, upstream, run, destExists, files, gomod, sourceDir,
                   apiIdx, toCopy, copies, handed, rewriteCalls, depIdx, scanDup, hadFiles, probe,
                   inOrder, tidyLog, prev>>

\* Lines 144-162: collectInternalImports, the loop that fills toCopy, and
\* the test that ends the closure loop.  With history the run keeps in
\* inOrder whether its lists were ascending, for the comparison of runs.
Scan(history) ==
    /\ pc = "scan"
    /\ \/ /\ Return("ScanFailure") /\ Log("scan", 0, "ScanFailure")
          /\ UNCHANGED <<seenImports, toCopy, scanDup, inOrder>>
       \/ \E internalImports \in ScanResults(InternalImports(files, repo)) :
             LET n == NewImports(internalImports, seenImports, <<>>) IN
             /\ seenImports' = n.seen
             /\ toCopy' = n.toCopy
             /\ scanDup' = (scanDup \/ Len(internalImports) > Cardinality(Range(internalImports)))
             /\ inOrder' = IF history THEN inOrder /\ Ascending(n.toCopy) ELSE inOrder
             /\ pc' = IF ClosureReached(n.toCopy) THEN "rewrite" ELSE "copy"
             /\ ret' = ret
             /\ Log("scan", 0, "nil")
    /\ UNCHANGED <<o, repo, upstream, run, destExists, files, gomod, sourceDir,
                   apiIdx, copies, handed, rewriteCalls, depIdx, hadFiles, probe,
                   tidyLog, prev>>

\* A closure copy that undoes its copies when one package fails.
CopyInternalAllOrNothing ==
    /\ pc = "copy"
    /\ \E failAt \in 0..Len(toCopy) :
          LET c == CopyInternalPackages(toCopy, files, repo, run, failAt, <<>>) IN
          /\ files' = IF c.err # "nil" THEN files ELSE c.files
          /\ copies' = Bump(copies, c.done)
          /\ handed' = Bump(handed, toCopy)
          /\ Log("copyInternal", 0, c.err)
          /\ IF c.err # "nil" THEN Return(c.err) ELSE pc' = "scan" /\ ret' = ret
    /\ UNCHANGED <<o, repo, upstream, run, destExists, gomod, sourceDir, apiIdx,
                   seenImports, toCopy, rewriteCalls, depIdx, scanDup, hadFiles, probe,
                   inOrder, tidyLog, prev>>

\* Lines 164-166: copyInternalPackages(toCopy, ...).
CopyInternal ==
    /\ pc = "copy"
    /\ \E failAt \in 0..Len(toCopy) :
          LET c == CopyInternalPackages(toCopy, files, repo, run, failAt, <<>>) IN
          /\ files' = c.files
          /\ copies' = Bump(copies, c.done)
          /\ handed' = Bump(handed, toCopy)
          /\ Log("copyInternal", 0, c.err)
          /\ IF c.err # "nil" THEN Return(c.err) ELSE pc' = "scan" /\ ret' = ret
    /\ UNCHANGED <<o, repo, upstream, run, destExists, gomod, sourceDir, apiIdx,
                   seenImports, toCopy, rewriteCalls, depIdx, scanDup, hadFiles, probe,
                   inOrder, tidyLog, prev>>

\* Lines 169-174 and 79-82: rewriteImports; when it fails on a file, the
\* files before it are rewritten already.
Rewrite ==
    /\ pc = "rewrite"
    /\ rewriteCalls' = rewriteCalls + 1
    /\ \/ /\ files' = RewriteImports(files, Cardinality(DOMAIN files), UpstreamModule,
                                   MirrorModule(ModulePath(ModuleRoot, MirrorRootPath),
                                                Slug, CurrentVersion))
          /\ pc' = "gomod" /\ ret' = ret
          /\ Log("rewrite", 0, "nil")
       \/ \E n \in 0..Cardinality(DOMAIN files) :
             /\ n < Cardinality(DOMAIN files) \/ n = 0
             /\ files' = RewriteImports(files, n, UpstreamModule,
                                      MirrorModule(ModulePath(ModuleRoot, MirrorRootPath),
                                                   Slug, CurrentVersion))
             /\ Return("ParseFailure")
             /\ Log("rewrite", 0, "ParseFailure")
    /\ UNCHANGED <<o, repo, upstream, run, destExists, gomod, sourceDir, apiIdx,
                   seenImports, toCopy, copies, handed, depIdx, scanDup, hadFiles, probe,
                   inOrder, tidyLog, prev>>

\* createGoMod, lines 178-222: read and parse the upstream go.mod, build the
\* new one, write it to destDir/go.mod.
WriteGoMod(ups) ==
    /\ pc = "gomod"
    /\ \/ /\ Return("ManifestReadFailure") /\ Log("gomod", 0, "ManifestReadFailure")
          /\ UNCHANGED <<upstream, gomod>>
       \/ \E up \in ups :
             /\ upstream' = up
             /\ IF ~up.ok
                THEN /\ Return("ManifestParseFailure")
                     /\ Log("gomod", 0, "ManifestParseFailure")
                     /\ gomod' = gomod
                ELSE \/ /\ gomod' = NewMod(up, MirrorModulePath(ModulePath(ModuleRoot, MirrorRootPath),
                                                                Slug, CurrentVersion), run)
                        /\ pc' = "override" /\ ret' = ret
                        /\ Log("gomod", 0, "nil")
                     \/ /\ gomod' = gomod
                        /\ Return("ManifestWriteFailure")
                        /\ Log("gomod", 0, "ManifestWriteFailure")
    /\ depIdx' = 1
    /\ UNCHANGED <<o, repo, run, destExists, files, sourceDir, apiIdx, seenImports,
                   toCopy, copies, handed, rewriteCalls, scanDup, hadFiles, probe,
                   inOrder, tidyLog, prev>>

\* An override loop that goes on to the next override after a rejected one.
OverrideIgnoresRejection ==
    /\ pc = "override"
    /\ depIdx <= Len(o.OverwriteDeps)
    /\ \/ /\ gomod' = [gomod EXCEPT !.replace = EditReplace(@, ReplaceArg(o.OverwriteDeps[depIdx]))]
          /\ Log("override", depIdx, "nil")
       \/ /\ gomod' = gomod
          /\ Log("override", depIdx, "OverrideApplyFailure")
    /\ depIdx' = depIdx + 1
    /\ pc' = pc /\ ret' = ret
    /\ UNCHANGED <<o, repo, upstream, run, destExists, files, sourceDir, apiIdx,
                   seenImports, toCopy, copies, handed, rewriteCalls, scanDup, hadFiles, probe,
                   inOrder, tidyLog, prev>>

\* createGoMod, lines 225-236, one iteration of the range loop over
\* o.OverwriteDeps: go mod edit -replace in destDir.
Override ==
    /\ pc = "override"
    /\ depIdx <= Len(o.OverwriteDeps)
    /\ \/ /\ gomod' = [gomod EXCEPT !.replace = EditReplace(@, ReplaceArg(o.OverwriteDeps[depIdx]))]
          /\ depIdx' = depIdx + 1
          /\ pc' = pc /\ ret' = ret
          /\ Log("override", depIdx, "nil")
       \/ /\ UNCHANGED <<gomod, depIdx>>
          /\ Return("OverrideApplyFailure")
          /\ Log("override", depIdx, "OverrideApplyFailure")
    /\ UNCHANGED <<o, repo, upstream, run, destExists, files, sourceDir, apiIdx,
                   seenImports, toCopy, copies, handed, rewriteCalls, scanDup, hadFiles, probe,
                   inOrder, tidyLog, prev>>

\* createGoMod, lines 238-242: tidy(destDir).  With history tidy is held to
\* what it left before when it is given the same go.mod and files again;
\* without, any result may follow.
Tidy(history) ==
    /\ pc = "override"
    /\ depIdx > Len(o.OverwriteDeps)
    /\ \/ /\ \E req \in TidyResults(gomod.require) :
                /\ \A e \in tidyLog : e.given = TidyInput(files, gomod) => e.left = req
                /\ gomod' = [gomod EXCEPT !.require = req, !.tidied = TRUE]
                /\ tidyLog' = IF history
                              THEN tidyLog \cup {[given |-> TidyInput(files, gomod), left |-> req]}
                              ELSE tidyLog
          /\ pc' = "release" /\ ret' = ret
          /\ Log("tidy", 0, "nil")
       \/ /\ UNCHANGED <<gomod, tidyLog>>
          /\ Return("ResolutionFailure")
          /\ Log("tidy", 0, "ResolutionFailure")
    /\ UNCHANGED <<o, repo, upstream, run, destExists, files, sourceDir, apiIdx,
                   seenImports, toCopy, copies, handed, rewriteCalls, depIdx, scanDup, hadFiles, probe,
                   inOrder, prev>>

\* Lines 89-90: os.RemoveAll(sourceDir), its error dropped; return nil.
Release ==
    /\ pc = "release"
    /\ sourceDir' \in {"removed", "exists"}
    /\ Return("nil")
    /\ Log("release", 0, "nil")
    /\ UNCHANGED <<o, repo, upstream, run, destExists, files, gomod, apiIdx,
                   seenImports, toCopy, copies, handed, rewriteCalls, depIdx, scanDup, hadFiles, probe,
                   inOrder, tidyLog, prev>>

\* The next call of Mirror with the same configuration and destination.
\* With history, how the run before it ended is kept in prev.
MirrorAgain(history) ==
    /\ pc = "done"
    /\ run < MaxRuns
    /\ pc' = "purge"
    /\ run' = run + 1
    /\ ret' = "pending"
    /\ sourceDir' = "none"
    /\ apiIdx' = 1
    /\ seenImports' = {}
    /\ toCopy' = <<>>
    /\ steps' = <<>>
    /\ copies' = Zero
    /\ handed' = Zero
    /\ rewriteCalls' = 0
    /\ depIdx' = 1
    /\ upstream' = NotRead
    /\ scanDup' = FALSE
    /\ hadFiles' = (DOMAIN files # {} \/ gomod # NoFile)
    /\ inOrder' = TRUE
    /\ prev' = IF history /\ ret = "nil"
               THEN [ok |-> TRUE, tree |-> Content(files), manifest |-> Manifest(gomod),
                     upstream |-> upstream, inOrder |-> inOrder]
               ELSE NoPrev
    /\ UNCHANGED <<o, repo, destExists, files, gomod, probe, tidyLog>>

Next ==
    \/ RemoveDest
    \/ MkdirDest
    \/ Clone
    \/ SeedCopy
    \/ GetUpstreamModulePath
    \/ Scan(FALSE)
    \/ CopyInternal
    \/ Rewrite
    \/ WriteGoMod(PipelineGoMods)
    \/ Override
    \/ Tidy(FALSE)
    \/ Release
    \/ MirrorAgain(FALSE)

Spec == Init /\ [][Next]_vars

\* Mirror called again and again, each run compared with the one before.
NextRerun ==
    \/ RemoveDest
    \/ MkdirDest
    \/ Clone
    \/ SeedCopy
    \/ GetUpstreamModulePath
    \/ Scan(TRUE)
    \/ CopyInternal
    \/ Rewrite
    \/ WriteGoMod(PipelineGoMods)
    \/ Override
    \/ Tidy(TRUE)
    \/ Release
    \/ MirrorAgain(TRUE)

RerunSpec == Init /\ [][NextRerun]_vars

\* createGoMod on its own: entered by a run without API patterns, on every
\* upstream go.mod of AllGoMods and every override list up to MaxOverrides.
InitGoMod ==
    /\ o \in [APIs : {<<>>}, OverwriteDeps : SeqsUpTo(Deps, MaxOverrides)]
    /\ repo = [pkgs |-> Pkgs, refs |-> Diamond]
    /\ upstream = NotRead
    /\ destExists = TRUE
    /\ files = <<>>
    /\ gomod = NoFile
    /\ hadFiles = FALSE
    /\ probe = NoProbe
    /\ inOrder = TRUE /\ tidyLog = {} /\ prev = NoPrev
    /\ pc = "gomod"
    /\ run = 1
    /\ ret = "pending"
    /\ sourceDir = "exists"
    /\ apiIdx = 1
    /\ seenImports = {}
    /\ toCopy = <<>>
    /\ steps = <<Entry("purge", 0, "nil"), Entry("mkdir", 0, "nil"), Entry("clone", 0, "nil"),
                 Entry("modpath", 0, "nil"), Entry("scan", 0, "nil"), Entry("rewrite", 0, "nil")>>
    /\ copies = Zero
    /\ handed = Zero
    /\ rewriteCalls = 1
    /\ depIdx = 1
    /\ scanDup = FALSE

NextGoMod ==
    \/ WriteGoMod(AllGoMods)
    \/ Override
    \/ Tidy(FALSE)
    \/ Release

GoModSpec == InitGoMod /\ [][NextGoMod]_vars

\* rewriteImports on its own: one import reference out of Refs, met in a
\* file of the tree during the rewrite pass of a run that got that far.
InitRewrite ==
    /\ o = [APIs |-> <<>>, OverwriteDeps |-> <<>>]
    /\ repo = [pkgs |-> Pkgs, refs |-> Diamond]
    /\ upstream = NotRead
    /\ destExists = TRUE
    /\ files = <<>>
    /\ gomod = NoFile
    /\ hadFiles = FALSE
    /\ probe \in [ref : Refs, out : {NoProbe.out}]
    /\ inOrder = TRUE /\ tidyLog = {} /\ prev = NoPrev
    /\ pc = "rewrite"
    /\ run = 1
    /\ ret = "pending"
    /\ sourceDir = "exists"
    /\ apiIdx = 1
    /\ seenImports = {}
    /\ toCopy = <<>>
    /\ steps = <<Entry("purge", 0, "nil"), Entry("mkdir", 0, "nil"), Entry("clone", 0, "nil"),
                 Entry("modpath", 0, "nil"), Entry("scan", 0, "nil")>>
    /\ copies = Zero
    /\ handed = Zero
    /\ rewriteCalls = 0
    /\ depIdx = 1
    /\ scanDup = FALSE

\* The rewrite reaches the reference.
RewriteOne ==
    /\ pc = "rewrite" /\ probe.out = NoProbe.out
    /\ probe' = [probe EXCEPT !.out =
                    RewriteRef(probe.ref, UpstreamModule,
                               MirrorModule(ModulePath(ModuleRoot, MirrorRootPath),
                                            Slug, CurrentVersion))]
    /\ UNCHANGED <<o, repo, upstream, pc, run, ret, destExists, files, gomod, sourceDir,
                   apiIdx, seenImports, toCopy, steps, copies, handed, rewriteCalls,
                   depIdx, scanDup, hadFiles, inOrder, tidyLog, prev>>

NextRewrite == RewriteOne

RewriteSpec == InitRewrite /\ [][NextRewrite]_vars

\* ---------------------------------------------------------------- claims
Returned == pc = "done"
StepDone(name) == \E i \in 1..Len(steps) : steps[i].s = name /\ steps[i].err = "nil"
StepRan(name) == \E i \in 1..Len(steps) : steps[i].s = name
PastFetch == StepDone("clone")

\* C1: whenever Mirror returns from a run that got past the fetch step,
\* whichever step ended the run, the temporary clone directory is gone.
C1_FetchDirReleased == (Returned /\ PastFetch) => sourceDir # "exists"

\* The o.APIs patterns name pairwise different directories.
DisjointAPIs ==
    \A i, j \in 1..Len(o.APIs) : i # j => o.APIs[i].dirs \cap o.APIs[j].dirs = {}

\* C2: during one run of Mirror no package is copied into the destination
\* tree more than once, seed copy and closure copies counted together, and
\* every package this run put there was copied exactly once.  (Stated for
\* configurations whose patterns do not overlap, so that a second copy can
\* only come from the closure.)
C2_CopiedExactlyOnce ==
    DisjointAPIs =>
        \A p \in Pkgs :
            /\ copies[p] <= 1
            /\ (p \in DOMAIN files /\ files[p].by = run /\ pc # "purge") => copies[p] = 1

InClosure == pc \in {"scan", "copy"}
Scans == Cardinality({i \in 1..Len(steps) : steps[i].s = "scan"})

\* C3: in the closure loop seenImports never loses an element, an iteration
\* that does not stop adds at least one import path to it, the loop stops
\* exactly when the scan reports no import path outside seenImports, and it
\* stops after at most one scan per import path of the source tree plus one.
C3_ClosureTerminates ==
    /\ [](Scans <= Cardinality(Pkgs) + 1)
    /\ [][InClosure => seenImports \subseteq seenImports']_vars
    /\ [][(pc = "scan" /\ pc' = "copy") =>
             (seenImports # seenImports' /\ toCopy' # <<>>
              /\ Range(toCopy') = seenImports' \ seenImports)]_vars
    /\ [][(pc = "scan" /\ ret' = "pending") =>
             (pc' = "rewrite" <=> InternalImports(files, repo) \subseteq seenImports)]_vars

\* Witness of C3: the closure of a cyclic graph (1 refers to 2, 2 to 1) has
\* ended after more than one iteration.
C3_Witness ==
    /\ pc = "rewrite"
    /\ 2 \in repo.refs[1] /\ 1 \in repo.refs[2]
    /\ 1 \in DOMAIN files
    /\ Scans >= 3

\* C4: in one closure run no import path is handed to copyInternalPackages
\* more than once, and in the diamond (1 refers to 2 and 3, both refer to 4)
\* a closure that ends has handed over 4 exactly once.
C4_HandedOnce ==
    /\ \A p \in Pkgs : handed[p] <= 1
    /\ (repo.refs = Diamond /\ 1 \in DOMAIN files /\ files[1].by = run
        /\ pc \in {"rewrite", "gomod", "override", "release"})
           => handed[4] = 1

\* Witness of C4: the diamond's closure has ended, 4 was handed over once,
\* and a scan of this run reported a path more than once.
C4_Witness ==
    /\ repo.refs = Diamond /\ pc = "rewrite" /\ scanDup
    /\ handed[2] = 1 /\ handed[3] = 1 /\ handed[4] = 1

LastOf(name) ==
    LET at == {i \in 1..Len(steps) : steps[i].s = name}
    IN IF at = {} THEN 0 ELSE CHOOSE i \in at : \A j \in at : j <= i

\* C5: rewriteImports is called at most once in a run, only after a scan
\* that found nothing new; no copy follows it; no file is rewritten twice,
\* and after a successful run every file of the tree is rewritten once.
C5_RewriteOnceAfterClosure ==
    /\ rewriteCalls <= 1
    /\ \A p \in DOMAIN files : files[p].rw <= 1
    /\ StepRan("rewrite") =>
          /\ rewriteCalls = 1
          /\ toCopy = <<>>
          /\ LastOf("rewrite") = LastOf("scan") + 1
          /\ steps[LastOf("scan")].err = "nil"
          /\ LastOf("seed") < LastOf("rewrite")
          /\ LastOf("copyInternal") < LastOf("rewrite")
    /\ (Returned /\ ret = "nil") => \A p \in DOMAIN files : files[p].rw = 1

\* Witness of C5: a successful run whose closure copied a package, all
\* files rewritten.
C5_Witness ==
    /\ Returned /\ ret = "nil" /\ rewriteCalls = 1
    /\ \E p \in DOMAIN files : handed[p] = 1 /\ files[p].rw = 1

\* The step that may follow step a in Mirror.
Follows(a, b) ==
    LET n == Len(o.APIs)
        m == Len(o.OverwriteDeps)
    IN CASE a.s = "purge" -> b.s = "mkdir"
         [] a.s = "mkdir" -> b.s = "clone"
         [] a.s = "clone" -> IF n > 0 THEN b.s = "seed" /\ b.i = 1 ELSE b.s = "modpath"
         [] a.s = "seed" -> IF a.i < n THEN b.s = "seed" /\ b.i = a.i + 1 ELSE b.s = "modpath"
         [] a.s = "modpath" -> b.s = "scan"
         [] a.s = "scan" -> b.s \in {"copyInternal", "rewrite"}
         [] a.s = "copyInternal" -> b.s = "scan"
         [] a.s = "rewrite" -> b.s = "gomod"
         [] a.s = "gomod" -> IF m > 0 THEN b.s = "override" /\ b.i = 1 ELSE b.s = "tidy"
         [] a.s = "override" -> IF a.i < m THEN b.s = "override" /\ b.i = a.i + 1 ELSE b.s = "tidy"
         [] a.s = "tidy" -> b.s = "release"
         [] OTHER -> FALSE

\* C6: the steps of a run follow the fixed order purge, recreate, fetch,
\* seed copies in configured order, closure, rewrite, manifest, release;
\* a step runs only when every step before it succeeded, and Mirror
\* returns the error of the step that failed, which is the last step run.
C6_FixedOrderFailFast ==
    /\ Len(steps) > 0 => steps[1].s = "purge"
    /\ \A i \in 1..(Len(steps) - 1) :
          steps[i].err = "nil" /\ Follows(steps[i], steps[i + 1])
    /\ Returned =>
          /\ ret = steps[Len(steps)].err
          /\ ret = "nil" <=> steps[Len(steps)].s = "release"
    /\ ~Returned => (ret = "pending" /\ (Len(steps) > 0 => steps[Len(steps)].err = "nil"))

\* Witness of C6: a run that failed at its second seed copy, after which
\* nothing else ran.
C6_Witness ==
    /\ Returned /\ ret = "CopyFailure"
    /\ Len(steps) = 5 /\ steps[5].s = "seed" /\ steps[5].i = 2

Stale == {p \in DOMAIN files : files[p].by < run}
StaleGoMod == gomod.by # 0 /\ gomod.by < run

\* C7 as stated: after a second run, whatever its outcome, nothing written
\* by the first run and not written again is left in the destination tree.
C7_NoStaleAfterAnyOutcome ==
    (run >= 2 /\ Returned) => (Stale = {} /\ ~StaleGoMod)

\* C7 amended: after a second run whose purge (os.RemoveAll of the
\* destination) succeeded, whatever its later outcome, nothing written by
\* the first run and not written again is left in the destination tree.
C7_NoStaleAfterPurge ==
    (run >= 2 /\ StepDone("purge")) => (Stale = {} /\ ~StaleGoMod)

\* Witness of C7: the first run left files, the second purged them and then
\* failed at the fetch step.
C7_Witness ==
    /\ run = 2 /\ hadFiles /\ Returned /\ ret = "FetchFailure"
    /\ StepDone("purge")

\* The packages the seed patterns match.
Seeds == UNION {o.APIs[i].dirs \cap repo.pkgs : i \in 1..Len(o.APIs)}

\* The import paths of toCopy that copyInternalPackages got to copy before
\* it met one whose package is absent.
FirstMissing ==
    LET at == {i \in 1..Len(toCopy) : toCopy[i] \notin repo.pkgs}
    IN IF at = {} THEN Len(toCopy) + 1 ELSE Min(at)
NotCopied == {toCopy[i] : i \in FirstMissing..Len(toCopy)}

\* C8: once the destination directory is recreated no step of the run
\* removes a file from it; when the closure fails with
\* MissingInternalPackage, the seed files and every package the closure
\* copied before the missing one are in the tree when Mirror returns.
C8_NothingDeletedOnFailure ==
    /\ [][(pc # "purge" /\ pc' # "purge") =>
             /\ DOMAIN files \subseteq DOMAIN files'
             /\ (gomod.by # 0 => gomod'.by # 0)]_vars
    /\ []((Returned /\ ret = "MissingInternalPackage") =>
             /\ Seeds \subseteq DOMAIN files
             /\ (seenImports \ NotCopied) \subseteq DOMAIN files
             /\ \A p \in Seeds \cup (seenImports \ NotCopied) : files[p].by = run)

\* Witness of C8: the closure failed on the third package it tried to copy
\* and the two copied before it are in the tree.
C8_Witness ==
    /\ Returned /\ ret = "MissingInternalPackage"
    /\ Cardinality(seenImports \ NotCopied) = 2
    /\ Cardinality(Seeds) = 1
    /\ Seeds \cap seenImports = {}
    /\ DOMAIN files = Seeds \cup (seenImports \ NotCopied)

ZeroMatch(d) == ~d.bad /\ d.dirs \cap repo.pkgs = {}
AllZeroMatch == Len(o.APIs) > 0 /\ \A i \in 1..Len(o.APIs) : ZeroMatch(o.APIs[i])

\* C9: for a pattern that matches nothing GetPaths gives an empty list and
\* no error, its seed copy leaves the tree as it is and the run goes on to
\* the next pattern; a run whose patterns all match nothing never fails in
\* a seed copy or a closure copy.
C9_ZeroMatchContinues ==
    /\ [](\A i \in 1..Len(o.APIs) :
             ZeroMatch(o.APIs[i]) =>
                GetPaths(o.APIs[i], repo) = [paths |-> <<>>, err |-> "nil"])
    /\ [][(pc = "seed" /\ apiIdx <= Len(o.APIs) /\ ZeroMatch(o.APIs[apiIdx])) =>
             /\ files' = files /\ copies' = copies
             /\ pc' = "seed" /\ ret' = "pending" /\ apiIdx' = apiIdx + 1]_vars
    /\ []((AllZeroMatch /\ Returned) =>
             /\ ret \notin {"InvalidPattern", "CopyFailure", "MissingInternalPackage"}
             /\ DOMAIN files = {})

\* Witness of C9: a run whose patterns all matched nothing returned success
\* with a go.mod written.
C9_Witness ==
    /\ AllZeroMatch /\ Returned /\ ret = "nil"
    /\ gomod.by = run /\ DOMAIN files = {}

\* C10: with no overrides configured, the require lines of the go.mod that
\* createGoMod wrote, before tidy, are those of the upstream go.mod, in the
\* same order.
C10_RequireVerbatim ==
    (pc = "override" /\ o.OverwriteDeps = <<>> /\ gomod.by = run)
        => gomod.require = upstream.require

\* C12: with old module path x/y, a reference is rewritten exactly when it
\* is x/y or continues x/y after a "/": then the new module path stands in
\* place of x/y and the rest of the reference is kept; every other
\* reference, x/yz among them, comes out as it went in.
C12_SegmentBoundaryRewrite ==
    probe.out # NoProbe.out =>
        LET old == <<"x", "/", "y">>
            new == <<"r", "/", "m", "/", "s", "/", "v">>
            ref == probe.ref
            internal == \/ ref = old
                        \/ /\ Len(ref) > 3
                           /\ \A i \in 1..3 : ref[i] = old[i]
                           /\ ref[4] = "/"
        IN /\ internal => probe.out = new \o SubSeq(ref, 4, Len(ref))
           /\ ~internal => probe.out = ref
           /\ ref = old => probe.out = new
           /\ ref = <<"x", "/", "y", "/", "z">> => probe.out = new \o <<"/", "z">>
           /\ ref = <<"x", "/", "y", "z">> => probe.out = ref

\* Witness of C12: the rewrite met the reference x/yz and left it alone.
C12_Witness ==
    /\ probe.ref = <<"x", "/", "y", "z">>
    /\ probe.out = <<"x", "/", "y", "z">>

\* C18: once this run has written its go.mod, the module path declared
\* there is r/m/s/v (moduleRoot/slug/version) and is the module path that
\* the rewrite put into every file it rewrote in this run.
C18_ManifestModuleIsRewriteTarget ==
    gomod.by = run =>
        /\ gomod.module = <<"r", "/", "m", "/", "s", "/", "v">>
        /\ \A p \in DOMAIN files :
              (files[p].by = run /\ files[p].rw > 0) => files[p].mod = gomod.module

\* Witness of C18: a run returned success with a go.mod whose module path
\* is the one carried by a file that was copied and rewritten in this run.
C18_Witness ==
    /\ Returned /\ ret = "nil" /\ gomod.by = run
    /\ \E p \in DOMAIN files :
          /\ files[p].by = run /\ files[p].rw > 0
          /\ files[p].mod = gomod.module /\ files[p].mod # UpstreamModule

\* C14: the go.mod that createGoMod writes has the go directive of the
\* upstream go.mod when that has one, and go 1.22 when it has none; it has
\* no other go directive.
C14_GoDirective ==
    (gomod.by = run /\ ~gomod.tidied) =>
        /\ upstream.go # "" => gomod.go = upstream.go
        /\ upstream.go = "" => gomod.go = "1.22"
        /\ gomod.go \in {"1.21", "1.22"}

\* Witness of C14: createGoMod wrote a go.mod from an upstream go.mod
\* without a go directive, and the written one says go 1.22.
C14_Witness ==
    /\ pc = "override" /\ gomod.by = run /\ ~gomod.tidied
    /\ upstream.ok /\ upstream.go = "" /\ gomod.go = "1.22"

\* The replace lines after the first k overrides of a list.
RECURSIVE Applied(_, _)
Applied(deps, k) ==
    IF k = 0 THEN <<>>
    ELSE LET rep == Applied(deps, k - 1)
             d == deps[k]
             line == [old |-> d[1], new |-> d[1], vers |-> d[2]]
         IN IF \E i \in 1..Len(rep) : rep[i].old = d[1]
            THEN [i \in 1..Len(rep) |-> IF rep[i].old = d[1] THEN line ELSE rep[i]]
            ELSE Append(rep, line)

\* The overrides of a list that no later override of the same name follows.
Effective(deps) ==
    {deps[i] : i \in {j \in 1..Len(deps) :
                        \A k \in (j + 1)..Len(deps) : deps[k][1] # deps[j][1]}}

\* C17: every override runs after the go.mod was written, the overrides run
\* in configured order one after the other, each after the one before it
\* succeeded; tidy runs at most once, after all overrides succeeded, and
\* nothing of createGoMod runs after it; when an override is rejected
\* Mirror returns that error, no later override and no tidy has run, and
\* the go.mod is in place with the overrides before the rejected one.
C17_OverridesThenTidy ==
    LET n == Len(steps)
        deps == o.OverwriteDeps
        At(name) == {i \in 1..n : steps[i].s = name}
    IN /\ \A i \in At("override") :
             /\ i > 1 /\ steps[i].i \in 1..Len(deps)
             /\ IF steps[i].i = 1
                THEN steps[i - 1] = Entry("gomod", 0, "nil")
                ELSE steps[i - 1] = Entry("override", steps[i].i - 1, "nil")
       /\ Cardinality(At("tidy")) <= 1
       /\ \A i \in At("tidy") :
             /\ i > 1
             /\ IF deps = <<>>
                THEN steps[i - 1] = Entry("gomod", 0, "nil")
                ELSE steps[i - 1] = Entry("override", Len(deps), "nil")
             /\ \A j \in (i + 1)..n : steps[j].s = "release"
       /\ \A i \in At("override") :
             steps[i].err # "nil" =>
                /\ i = n /\ Returned /\ ret = "OverrideApplyFailure"
                /\ gomod.by = run /\ ~gomod.tidied
                /\ gomod.replace = Applied(deps, steps[i].i - 1)
       /\ ret = "OverrideApplyFailure" =>
             (n > 0 /\ steps[n].s = "override" /\ steps[n].err # "nil")

\* Witness of C17: the second of two overrides was rejected; Mirror has
\* returned that error and the go.mod holds the first override only.
C17_Witness ==
    /\ Returned /\ ret = "OverrideApplyFailure"
    /\ Len(o.OverwriteDeps) = 2 /\ depIdx = 2
    /\ gomod.by = run /\ ~gomod.tidied /\ Len(gomod.replace) = 1
    /\ ~StepRan("tidy")

\* C19: when all overrides are applied and tidy has not run yet, the
\* replace lines of the go.mod are one line name => name@version for each
\* configured override (the last one for a name given twice) and nothing
\* else, there is no exclude line, and without overrides there is no
\* replace line, whatever replace and exclude lines upstream has.
C19_ReplaceFromOverridesOnly ==
    (pc = "override" /\ gomod.by = run /\ depIdx > Len(o.OverwriteDeps)) =>
        /\ Range(gomod.replace) =
              {[old |-> d[1], new |-> d[1], vers |-> d[2]] : d \in Effective(o.OverwriteDeps)}
        /\ Len(gomod.replace) = Cardinality(Effective(o.OverwriteDeps))
        /\ gomod.exclude = <<>>
        /\ o.OverwriteDeps = <<>> => gomod.replace = <<>>

\* Witness of C19: upstream has a replace and an exclude line, two
\* overrides are applied, and the go.mod has the two override lines.
C19_Witness ==
    /\ pc = "override" /\ gomod.by = run /\ depIdx = 3
    /\ o.OverwriteDeps = <<<<1, 2>>, <<2, 1>>>>
    /\ upstream.replace # <<>> /\ upstream.exclude # <<>>
    /\ gomod.replace = <<[old |-> 1, new |-> 1, vers |-> 2], [old |-> 2, new |-> 2, vers |-> 1]>>

\* The import paths reachable from a set of packages through the references
\* of the clone.
RECURSIVE Closure(_)
Closure(S) ==
    LET next == S \cup UNION {repo.refs[p] : p \in S}
    IN IF next = S THEN S ELSE Closure(next)
Reachable == Closure(UNION {repo.refs[p] : p \in Seeds})

\* C13: when the closure loop has ended without error, the import paths it
\* handed on for copying are exactly those reachable from the seed-copied
\* packages, each of them has its package in the tree and is referred to
\* by a file of the tree, the tree holds the seeds and those packages and
\* nothing else, and every import of a file of the tree is in the tree; a
\* run in which a reachable package is absent from the clone does not get
\* that far and does not return success.
C13_ClosureIsReachableSet ==
    /\ pc = "rewrite" =>
          /\ seenImports = Reachable
          /\ seenImports \subseteq DOMAIN files
          /\ DOMAIN files = Seeds \cup Reachable
          /\ \A p \in seenImports : copies[p] >= 1 /\ \E q \in DOMAIN files : p \in repo.refs[q]
          /\ \A q \in DOMAIN files : repo.refs[q] \subseteq DOMAIN files
    /\ (pc \in {"rewrite", "gomod", "override", "release"} \/ (Returned /\ ret = "nil"))
          => Reachable \subseteq repo.pkgs
    /\ (Returned /\ ret = "MissingInternalPackage") => ~(Reachable \subseteq repo.pkgs)

\* Witness of C13: the closure loop ended after copying in more than one
\* iteration, with packages in the tree that are no seeds.
C13_Witness ==
    /\ pc = "rewrite" /\ Scans >= 3
    /\ seenImports = Reachable /\ Reachable \ Seeds # {}
    /\ DOMAIN files = Seeds \cup Reachable

\* C15: the list of new import paths handed to copyInternalPackages is in
\* ascending order in every iteration of the closure loop.
C15_CopyListSorted ==
    pc = "copy" => \A i \in 1..(Len(toCopy) - 1) : toCopy[i] < toCopy[i + 1]

\* C16 as stated: in the closure loop every import path of seenImports has
\* its package in the destination tree.
C16_SeenOnlyCopied ==
    InClosure => seenImports \subseteq DOMAIN files

\* The list handed to copyInternalPackages whose copying is not finished:
\* about to start, or ended by an error.
CopyFailed ==
    /\ Returned /\ Len(steps) > 0
    /\ steps[Len(steps)].s = "copyInternal" /\ steps[Len(steps)].err # "nil"
Pending == IF pc = "copy" \/ CopyFailed THEN Range(toCopy) ELSE {}

\* C16 amended: every import path of seenImports has its package in the
\* destination tree or is in the list of new paths of the current
\* iteration, recorded when the scan reported it and handed on for copying;
\* between a finished copy and the next scan, and when the loop has ended,
\* all of seenImports is in the tree.
C16_SeenCopiedOrPending ==
    /\ (pc \in {"scan", "copy", "rewrite"} \/ CopyFailed) =>
          seenImports \ Pending \subseteq DOMAIN files
    /\ pc = "copy" => (toCopy # <<>> /\ Range(toCopy) \subseteq seenImports)
    /\ CopyFailed => Range(toCopy) \subseteq seenImports

\* Witness of C16: in the second iteration a path recorded in seenImports
\* waits in toCopy for its copy, next to one copied in the first iteration.
C16_Witness ==
    /\ pc = "copy" /\ Scans = 2
    /\ \E p \in seenImports : p \in DOMAIN files /\ p \notin Range(toCopy)
    /\ \E p \in seenImports : p \notin DOMAIN files /\ p \in Range(toCopy)

\* C11: when a run of Mirror returns success after an earlier run with the
\* same configuration, clone and upstream go.mod that returned success
\* too, the destination holds the same file paths with the same content
\* and the same go.mod as after the earlier run, whatever the orders in
\* which the scans of the two runs reported the imports.
C11_SameTreeOnRerun ==
    (run >= 2 /\ Returned /\ ret = "nil" /\ prev.ok /\ prev.upstream = upstream) =>
        /\ DOMAIN files = DOMAIN prev.tree
        /\ \A p \in DOMAIN files :
              files[p].rw = prev.tree[p].rw /\ files[p].mod = prev.tree[p].mod
        /\ \A f \in {"module", "go", "require", "replace", "exclude"} :
              gomod[f] = prev.manifest[f]

\* Witness of C11: both runs returned success; the first copied its
\* packages in ascending order throughout, the second did not.
C11_Witness ==
    /\ run = 2 /\ Returned /\ ret = "nil" /\ prev.ok /\ prev.upstream = upstream
    /\ prev.inOrder /\ ~inOrder
    /\ Cardinality(DOMAIN files) >= 3 /\ gomod.tidied

====
